---- MODULE Spec2Model ----
(***************************************************************************)
(* Model of the LINE content generation backend (src/backend):             *)
(*   scraper.py            BlogScraper                                     *)
(*   web_search.py         WebSearchClient                                 *)
(*   content_generator.py  ContentGenerator                                *)
(*   app.py                POST /api/generate-line-content                 *)
(*                                                                         *)
(* Texts are sequences of one-character strings, so that strip() is        *)
(* computed.  Python dicts are functions whose DOMAIN is the key set, so   *)
(* that "key in dict" is computed.  None is the string "None".             *)
(***************************************************************************)
EXTENDS Integers, Sequences, FiniteSets, TLC

VARIABLES
    soup,             \* scraper: the parsed document (sequence of nodes, document order)
    phase,            \* scraper / formatter specifications: "build" | "done" | "idle"
    scraped,          \* scraper: what scrape() returned (with the list before dedup)
    fmtIn,            \* formatter: arguments of _format_as_markdown
    fmtOut,           \* formatter: its return value
    search_output,    \* search client: response.output of the search backend
    search_result,    \* search client: what search_related_info returned
    request,          \* endpoint: the request body received
    pc,               \* endpoint: position of the handler
    calls,            \* endpoint: remote calls issued so far, in order
    scraped_content,  \* endpoint: ScrapedContent of this run
    web_search_info,  \* generator: the dict of line 49/56
    searchFault,      \* generator: where the enrichment attempt raised, "none" if nowhere
    prompt,           \* generator: the prompt built by _build_prompt
    variations,       \* generator: the list of line 71
    fault,            \* endpoint: the stage whose exception ended the run, "none" if none
    response          \* endpoint: what the caller receives

vars == <<soup, phase, scraped, fmtIn, fmtOut, search_output, search_result, request, pc, calls, scraped_content,
          web_search_info, searchFault, prompt, variations, fault, response>>

None == "None"

\* the value of a variable the specification at hand does not use
Idle == [idle |-> TRUE]

(***************************************************************************)
(* Bounds of the model.                                                    *)
(***************************************************************************)
MaxNodes == 3
MaxImages == 2

(***************************************************************************)
(* Python helpers.                                                         *)
(***************************************************************************)
IsSpace(c) == c \in {" ", "\n"}

RECURSIVE LStrip(_)
LStrip(s) == IF s # <<>> /\ IsSpace(Head(s)) THEN LStrip(Tail(s)) ELSE s

RECURSIVE RStrip(_)
RStrip(s) ==
    IF s # <<>> /\ IsSpace(s[Len(s)]) THEN RStrip(SubSeq(s, 1, Len(s) - 1)) ELSE s

\* str.strip()
Strip(s) == RStrip(LStrip(s))

Range(s) == {s[k] : k \in 1..Len(s)}

\* list(dict.fromkeys(xs)): keys keep the position of their first insertion
RECURSIVE FromKeys(_, _)
FromKeys(xs, acc) ==
    IF xs = <<>> THEN acc
    ELSE FromKeys(Tail(xs), IF Head(xs) \in Range(acc) THEN acc ELSE Append(acc, Head(xs)))

\* a faulty variant of dict.fromkeys: keys keep the position of their last occurrence
RECURSIVE FromKeysLast(_, _)
FromKeysLast(xs, acc) ==
    IF xs = <<>> THEN acc
    ELSE FromKeysLast(Tail(xs),
                      IF Head(xs) \in Range(Tail(xs)) THEN acc ELSE Append(acc, Head(xs)))

Dedup(xs) == FromKeys(xs, <<>>)

(***************************************************************************)
(* urllib.parse.urljoin on http URLs: a reference is absolute              *)
(* (kind "abs"), host-relative ("root", leading slash) or relative to the  *)
(* directory of the base ("rel"); dot segments are removed.                *)
(***************************************************************************)
RECURSIVE RemoveDots(_, _)
RemoveDots(segs, acc) ==
    IF segs = <<>> THEN acc
    ELSE IF Head(segs) = ".."
         THEN RemoveDots(Tail(segs),
                         IF acc = <<>> THEN acc ELSE SubSeq(acc, 1, Len(acc) - 1))
         ELSE RemoveDots(Tail(segs), Append(acc, Head(segs)))

BaseDir(path) == IF path = <<>> THEN <<>> ELSE SubSeq(path, 1, Len(path) - 1)

urljoin(base, ref) ==
    CASE ref.kind = "abs"  -> [host |-> ref.host, path |-> ref.path]
      [] ref.kind = "root" -> [host |-> base.host, path |-> RemoveDots(ref.path, <<>>)]
      [] OTHER             -> [host |-> base.host,
                               path |-> RemoveDots(BaseDir(base.path) \o ref.path, <<>>)]

\* BlogScraper.url of the run: https://h/post/1
PageUrl == [host |-> "h", path |-> <<"post", "1">>]

(***************************************************************************)
(* The parsed document (BeautifulSoup).  A node is                         *)
(*   [tag, cls, id, text, src, dsrc, parent, dead]                         *)
(* in document order; parent = 0 for a child of the root; dead is set by   *)
(* decompose().  An attribute reference is [kind, host, path] with kind    *)
(* "none" (attribute missing), "empty" (""), "abs", "root" or "rel".       *)
(***************************************************************************)
NoRef == [kind |-> "none", host |-> "", path |-> <<>>]
EmptyRef == [kind |-> "empty", host |-> "", path |-> <<>>]
Ref(kind, host, path) == [kind |-> kind, host |-> host, path |-> path]

\* truthiness of img.get(...)
RefTruthy(r) == r.kind \notin {"none", "empty"}

Node(tag, cls, id, text, src, dsrc) ==
    [tag |-> tag, cls |-> cls, id |-> id, text |-> text, src |-> src, dsrc |-> dsrc,
     parent |-> 0, dead |-> FALSE]

RECURSIVE IsUnder(_, _, _)
\* node k is a proper descendant of node a (a = 0: the document itself)
IsUnder(doc, k, a) ==
    IF a = 0 THEN TRUE
    ELSE IF doc[k].parent = 0 THEN FALSE
    ELSE doc[k].parent = a \/ IsUnder(doc, doc[k].parent, a)

Min(S) == CHOOSE x \in S : \A y \in S : x <= y

\* the argument of find / find_all: tag names, class names or an id
ByTag(names) == [by |-> "tag", names |-> names]
ByClass(names) == [by |-> "class", names |-> names]
ById(name) == [by |-> "id", names |-> {name}]
AnyNode == [by |-> "any", names |-> {}]

Matches(n, m) ==
    CASE m.by = "tag"   -> n.tag \in m.names
      [] m.by = "class" -> n.cls \in m.names
      [] m.by = "id"    -> n.id \in m.names
      [] OTHER          -> TRUE

\* element.find_all(...): the live descendants of node a that match, in document order
FindAll(doc, a, m) ==
    SelectSeq([k \in 1..Len(doc) |-> k],
              LAMBDA k : ~doc[k].dead /\ IsUnder(doc, k, a) /\ Matches(doc[k], m))

\* soup.find(...): the first live node in document order that matches, 0 for None
FindFirst(doc, m) ==
    LET hits == FindAll(doc, 0, m) IN IF hits = <<>> THEN 0 ELSE Head(hits)

RECURSIVE Concat(_)
Concat(ss) == IF ss = <<>> THEN <<>> ELSE Head(ss) \o Concat(Tail(ss))

\* element.text: the text of the element and of its live descendants
TextOf(doc, k) ==
    Concat([j \in 1..Len(FindAll(doc, k, AnyNode)) |->
               doc[FindAll(doc, k, AnyNode)[j]].text])

ElemText(doc, k) == doc[k].text \o TextOf(doc, k)

(***************************************************************************)
(* BlogScraper._extract_title                                              *)
(***************************************************************************)
TitleClasses == {"article-title", "entry-title", "post-title"}
TitleUnknown == <<"?">>     \* the sentinel of line 63

\* a faulty variant: the h1 text is returned without the blank check of line 50
ExtractTitleNoBlankCheck(doc) ==
    LET h1 == FindFirst(doc, ByTag({"h1"}))
    IN  IF h1 # 0 THEN Strip(ElemText(doc, h1)) ELSE TitleUnknown

_extract_title(doc) ==
    LET h1 == FindFirst(doc, ByTag({"h1"}))
        at == FindFirst(doc, ByClass(TitleClasses))
        tt == FindFirst(doc, ByTag({"title"}))
    IN  IF h1 # 0 /\ Strip(ElemText(doc, h1)) # <<>> THEN Strip(ElemText(doc, h1))
        ELSE IF at # 0 /\ Strip(ElemText(doc, at)) # <<>> THEN Strip(ElemText(doc, at))
        ELSE IF tt # 0 /\ Strip(ElemText(doc, tt)) # <<>> THEN Strip(ElemText(doc, tt))
        ELSE TitleUnknown

(***************************************************************************)
(* The selector cascade of _extract_content and _extract_images.           *)
(***************************************************************************)
content_selectors ==
    <<"article", ".article-content", ".entry-content", ".post-content",
      "#content", ".content", "main", ".main">>

\* what the selector names after its "." or "#"
SelectorClasses ==
    [k \in 1..8 |-> <<"", "article-content", "entry-content", "post-content",
                      "", "content", "", "main">>[k]]
SelectorIds == [k \in 1..8 |-> <<"", "", "", "", "content", "", "", "">>[k]]
SelectorTags == [k \in 1..8 |-> <<"article", "", "", "", "", "", "main", "">>[k]]

\* lines 74-83: soup.find for one selector
FindSelector(doc, s) ==
    IF SelectorClasses[s] # "" THEN FindFirst(doc, ByClass({SelectorClasses[s]}))
    ELSE IF SelectorIds[s] # "" THEN FindFirst(doc, ById(SelectorIds[s]))
    ELSE FindFirst(doc, ByTag({SelectorTags[s]}))

\* lines 73-86: the first selector that finds an element wins; 0 is the soup itself
ContentElement(doc) ==
    LET hit == {s \in 1..Len(content_selectors) : FindSelector(doc, s) # 0}
    IN  IF hit = {} THEN 0 ELSE FindSelector(doc, Min(hit))

(***************************************************************************)
(* BlogScraper._extract_content, lines 88-90: the subtrees it removes from *)
(* the parsed document, which _extract_images reads afterwards.            *)
(***************************************************************************)
StrippedTags == {"script", "style", "nav", "header", "footer"}

Decompose(doc) ==
    LET c == ContentElement(doc)
        gone == FindAll(doc, c, ByTag(StrippedTags))
        Removed(k) == \E j \in 1..Len(gone) : k = gone[j] \/ IsUnder(doc, k, gone[j])
    IN  [k \in 1..Len(doc) |-> [doc[k] EXCEPT !.dead = @ \/ Removed(k)]]

\* "\n".join(texts)
RECURSIVE JoinLines(_)
JoinLines(texts) ==
    IF texts = <<>> THEN <<>>
    ELSE IF Len(texts) = 1 THEN Head(texts)
    ELSE Head(texts) \o <<"\n">> \o JoinLines(Tail(texts))

\* get_text() of node k, the document itself for k = 0
GetText(doc, k) == IF k = 0 THEN TextOf(doc, 0) ELSE ElemText(doc, k)

\* lines 66-106: the article body
_extract_content(doc) ==
    LET c == ContentElement(doc)
        after == Decompose(doc)
        byP == FindAll(after, c, ByTag({"p", "h2", "h3"}))
        paragraphs == IF byP # <<>> THEN byP
                      ELSE FindAll(after, c, ByTag({"div", "span", "section"}))
        texts == [j \in 1..Len(paragraphs) |-> Strip(GetText(after, paragraphs[j]))]
        content == JoinLines(SelectSeq(texts, LAMBDA t : t # <<>>))
    IN  IF content # <<>> THEN content ELSE Strip(GetText(after, c))

(***************************************************************************)
(* BlogScraper._extract_images                                             *)
(***************************************************************************)
\* lines 133-138 / 142-146: the resolved sources of the images under node a
RECURSIVE CollectImages(_, _)
CollectImages(doc, imgs) ==
    IF imgs = <<>> THEN <<>>
    ELSE LET img == doc[Head(imgs)]
             src == IF RefTruthy(img.src) THEN img.src ELSE img.dsrc
         IN  (IF RefTruthy(src) THEN <<urljoin(PageUrl, src)>> ELSE <<>>)
             \o CollectImages(doc, Tail(imgs))

\* the list "images" before line 149
ImagesCollected(doc) ==
    LET c == ContentElement(doc)
        inner == CollectImages(doc, FindAll(doc, c, ByTag({"img"})))
    IN  IF inner # <<>> THEN inner
        ELSE CollectImages(doc, FindAll(doc, 0, ByTag({"img"})))

\* a faulty variant of line 149: duplicates are dropped but the last occurrence is kept
ExtractImagesKeepLast(doc) == FromKeysLast(ImagesCollected(doc), <<>>)

_extract_images(doc) == Dedup(ImagesCollected(doc))

(***************************************************************************)
(* BlogScraper.scrape, lines 25-40, on a document that was fetched.        *)
(* "collected" is the local list of _extract_images before line 149.       *)
(***************************************************************************)
scrape(doc) ==
    LET title == _extract_title(doc)
        after == Decompose(doc)
    IN  [title |-> title,
         content |-> _extract_content(doc),
         images |-> _extract_images(after),
         collected |-> ImagesCollected(after)]

(***************************************************************************)
(* Optional[str] values whose characters matter: [isNone, s].              *)
(***************************************************************************)
NoneText == [isNone |-> TRUE, s |-> <<>>]
Txt(s) == [isNone |-> FALSE, s |-> s]

\* truthiness of an Optional[str] given as a TLA+ string
StrTruthy(v) == v # None /\ v # ""

(***************************************************************************)
(* ContentGenerator._format_as_markdown.  The markdown string is kept as   *)
(* the sequence of the pieces that were concatenated:                      *)
(*   text  : the content itself                                            *)
(*   image : "\n\n![... {n}]({url})"                                       *)
(*   link  : "\n\n[...]({url})"                                            *)
(* None + str raises TypeError.                                            *)
(***************************************************************************)
TextPart(s) == [kind |-> "text", n |-> 0, s |-> s, url |-> ""]
ImagePart(n, url) == [kind |-> "image", n |-> n, s |-> <<>>, url |-> url]
LinkPart(url) == [kind |-> "link", n |-> 0, s |-> <<>>, url |-> url]

\* a faulty variant of line 227: numbered i, from 0
ImagePartsFromZero(selected_images) ==
    [k \in 1..Len(selected_images) |-> ImagePart(k - 1, selected_images[k])]

\* lines 226-227: enumerate(selected_images), numbered i+1
ImageParts(selected_images) ==
    [k \in 1..Len(selected_images) |-> ImagePart(k, selected_images[k])]

_format_as_markdown(content, selected_images, blog_url) ==
    LET tail == ImageParts(selected_images)
                \o (IF StrTruthy(blog_url) THEN <<LinkPart(blog_url)>> ELSE <<>>)
    IN  [raised |-> content.isNone /\ tail # <<>>, isNone |-> content.isNone,
         parts |-> <<TextPart(content.s)>> \o tail]

(***************************************************************************)
(* Exceptions: [type, status, msg]; msg is the chain of messages, the      *)
(* outermost first (each handler formats the message of what it caught     *)
(* after its own).                                                         *)
(***************************************************************************)
Exc(type, msg) == [type |-> type, status |-> 0, msg |-> msg]
HTTPException(status, detail) == [type |-> "HTTPException", status |-> status, msg |-> detail]

\* pydantic's ValidationError is a ValueError
IsValueError(e) == e.type \in {"ValueError", "ValidationError"}

(***************************************************************************)
(* WebSearchClient.search_related_info.  The backend's response is its     *)
(* output list: items [type, hasContent, content]; a content block is      *)
(* [type, text, hasAnnotations, annotations]; an annotation [type, url].   *)
(* Python dicts are functions on their key set.                            *)
(***************************************************************************)
EmptyDict == [k \in {} |-> 0]

Put(d, k, v) == [x \in DOMAIN d \cup {k} |-> IF x = k THEN v ELSE d[x]]

\* lines 69-75
UrlCitations(annotations) ==
    LET cited == SelectSeq(annotations, LAMBDA a : a.type = "url_citation")
    IN  [k \in 1..Len(cited) |-> [url |-> cited[k].url, title |-> cited[k].title]]

\* lines 64-76 for one content block
ParseBlock(result, content) ==
    IF content.type = "output_text"
    THEN LET r1 == Put(result, "summary", content.text)
         IN  IF content.hasAnnotations
             THEN Put(r1, "citations", UrlCitations(content.annotations))
             ELSE r1
    ELSE result

RECURSIVE ParseBlocks(_, _)
ParseBlocks(result, blocks) ==
    IF blocks = <<>> THEN result
    ELSE ParseBlocks(ParseBlock(result, Head(blocks)), Tail(blocks))

\* lines 61-76: [raised, result]; iterating a message without content raises
RECURSIVE ParseOutput(_, _)
ParseOutput(result, output) ==
    IF output = <<>> THEN [raised |-> FALSE, result |-> result]
    ELSE LET item == Head(output)
         IN  IF item.type # "message" THEN ParseOutput(result, Tail(output))
             ELSE IF ~item.hasContent THEN [raised |-> TRUE, result |-> result]
             ELSE ParseOutput(ParseBlocks(result, item.content), Tail(output))

\* lines 80-82
SearchErrorResult(e) ==
    [error |-> e.msg, summary |-> Txt(<<>>), citations |-> <<>>]

\* lines 36-82: never raises; fault tells where the try block raised
search_related_info(backendRaised, output) ==
    IF backendRaised
    THEN [raised |-> FALSE, fault |-> "backend",
          result |-> SearchErrorResult(Exc("APIError", <<"search backend">>))]
    ELSE LET parsed == ParseOutput([search_results |-> <<>>], output)
         IN  IF parsed.raised
             THEN [raised |-> FALSE, fault |-> "parse",
                   result |-> SearchErrorResult(Exc("TypeError", <<"not iterable">>))]
             ELSE [raised |-> FALSE, fault |-> "none", result |-> parsed.result]

\* WebSearchClient.enhance_content_with_web_search, line 100
SearchQuery(company_name, topic) == <<company_name, topic>>

\* lines 103-108, given what search_related_info returned
EnhanceResult(topic, search_results) ==
    [topic |-> topic, search_results |-> search_results]

(***************************************************************************)
(* ContentGenerator.generate_line_content, lines 48-65: the enrichment.    *)
(***************************************************************************)
\* line 61: .get('search_results', {}).get('summary', '')[:100] raises on None
LogLineRaises(info) ==
    /\ "search_results" \in DOMAIN info
    /\ "summary" \in DOMAIN info.search_results
    /\ info.search_results.summary.isNone

\* a faulty variant of lines 63-65: the except clause raises again
EnrichmentReraises(topic, backendRaised, output) ==
    LET got == search_related_info(backendRaised, output)
        info == EnhanceResult(topic, got.result)
    IN  [raised |-> got.fault # "none",
         info |-> info,
         fault |-> IF got.fault # "none" THEN got.fault
                   ELSE IF LogLineRaises(info) THEN "log" ELSE "none"]

\* lines 49-65 with use_web_search true: [raised, info, fault]
Enrichment(topic, backendRaised, output) ==
    LET got == search_related_info(backendRaised, output)
    IN  IF got.raised
        THEN [raised |-> FALSE, info |-> EmptyDict, fault |-> got.fault]
        ELSE LET info == EnhanceResult(topic, got.result)
             IN  [raised |-> FALSE, info |-> info,
                  fault |-> IF got.fault # "none" THEN got.fault
                            ELSE IF LogLineRaises(info) THEN "log" ELSE "none"]

(***************************************************************************)
(* ContentGenerator._build_prompt: the prompt as the record of what it     *)
(* embeds.  A section that is "" in the source is [present |-> FALSE].     *)
(***************************************************************************)
NoSection == [present |-> FALSE, text |-> NoneText]

\* line 147
HasSummaryKey(info) ==
    /\ DOMAIN info # {}
    /\ "search_results" \in DOMAIN info
    /\ "summary" \in DOMAIN info.search_results

\* lines 146-154
WebSearchSection(info) ==
    IF HasSummaryKey(info)
    THEN [present |-> TRUE, text |-> info.search_results.summary]
    ELSE NoSection

\* lines 137-143
TemplateInstruction(req) ==
    IF StrTruthy(req.reference_template)
    THEN [present |-> TRUE, text |-> req.reference_template]
    ELSE [present |-> FALSE, text |-> ""]

\* line 168: the cap of the slice
BodyCap == 1500

\* a faulty variant of line 168: the body is embedded whole
PromptBodyWhole(content) == content

\* line 168: scraped_content.content[:1500]
PromptBody(content) == SubSeq(content, 1, Min({Len(content), BodyCap}))

_build_prompt(req, content, selected_images, info) ==
    [company_name |-> req.company_name,
     title |-> content.title,
     body |-> PromptBody(content.content),
     web_search_section |-> WebSearchSection(info),
     writing_style |-> req.writing_style,
     line_break_style |-> req.line_break_style,
     image_count |-> Len(selected_images),
     template_instruction |-> TemplateInstruction(req)]

(***************************************************************************)
(* app.py: request validation and the error handling of the endpoint.      *)
(* URLs are strings; UrlScheme and UrlHost are what a URL parser reads     *)
(* from them.                                                              *)
(***************************************************************************)
UrlScheme(u) ==
    CASE u \in {"https://h/post/1", "https://corp"} -> "https"
      [] u \in {"ftp://h/post/1", "ftp://corp"} -> "ftp"
      [] OTHER -> ""

UrlHost(u) ==
    CASE u \in {"https://h/post/1", "ftp://h/post/1"} -> "h"
      [] u \in {"https://corp", "ftp://corp"} -> "corp"
      [] OTHER -> ""

\* validators.url: a well-formed absolute URL of a known scheme
validators_url(u) == UrlScheme(u) \in {"http", "https", "ftp"} /\ UrlHost(u) # ""

\* pydantic HttpUrl
HttpUrl(u) == UrlScheme(u) \in {"http", "https"} /\ UrlHost(u) # ""

\* models.py lines 19-20 (ASCII stand-ins of the two Literal types)
WritingStyles == {"polite", "casual"}
LineBreakStyles == {"readable", "short", "long"}

\* LineGenerateRequest: what FastAPI validates before the handler runs
LineGenerateRequestValid(req) ==
    validators_url(req.blog_url) /\ validators_url(req.company_url)

\* LineContentRequest(...), app.py lines 186-205: what pydantic validates there
LineContentRequestValid(req) ==
    /\ HttpUrl(req.company_url)
    /\ HttpUrl(req.blog_url)
    /\ req.writing_style \in WritingStyles
    /\ req.line_break_style \in LineBreakStyles

NoBody == [present |-> FALSE, scraped_content |-> Idle, generated_options |-> <<>>]

\* FastAPI's answer to an HTTPException
Respond(e) == [status |-> e.status, detail |-> e.msg, body |-> NoBody]

\* FastAPI's answer to a body that fails LineGenerateRequest
RequestValidationResponse ==
    [status |-> 422, detail |-> <<"request validation error">>, body |-> NoBody]

\* scraper.py lines 42-44
ScrapeExcept(e) == Exc("Exception", <<"scraping failed">> \o e.msg)

\* app.py lines 179-181
InnerScrapeExcept(e) == HTTPException(500, <<"article scraping failed">> \o e.msg)

\* app.py lines 222-229: the handler's outer except clauses
OuterExcept(e) ==
    IF IsValueError(e) THEN HTTPException(422, e.msg)
    ELSE HTTPException(500, <<"LINE content generation failed">> \o e.msg)

\* app.py lines 217-220
LineContentResponse(content, generated_options) ==
    [status |-> 200, detail |-> <<>>,
     body |-> [present |-> TRUE, scraped_content |-> content,
               generated_options |-> generated_options]]

(***************************************************************************)
(* ContentGenerator.generate_line_content, lines 70-107: the variants.     *)
(***************************************************************************)
VariantCount == 3

\* lines 96-101
GeneratedContent(content, markdown) == [content |-> content, markdown |-> markdown]

\* a faulty variant of line 96: the new variant is put first
PrependVariation(vs, v) == <<v>> \o vs

AppendVariation(vs, v) == Append(vs, v)

\* a faulty variant of lines 103-105: the variants made so far are returned
GenerateExceptReturnsPartial(vs, e) ==
    [raised |-> FALSE, exc |-> e, value |-> vs]

\* lines 103-105: [raised, exc, value]
GenerateExcept(vs, e) ==
    [raised |-> TRUE, exc |-> Exc("Exception", <<"OpenAI generation failed">> \o e.msg),
     value |-> <<>>]

\* a faulty variant of line 50: the search never runs
StageAfterFetchNeverSearch(req) == "generate"

\* line 50
StageAfterFetch(req) == IF req.use_web_search THEN "search" ELSE "generate"

(***************************************************************************)
(* The remote calls of a run, as they are issued.                          *)
(***************************************************************************)
FetchCall(ok) ==
    [op |-> "fetch", ok |-> ok, i |-> 0, topic |-> <<>>, query |-> <<>>, text |-> NoneText]
SearchCall(ok, topic, query) ==
    [op |-> "search", ok |-> ok, i |-> 0, topic |-> topic, query |-> query,
     text |-> NoneText]
GenerateCall(ok, i, text) ==
    [op |-> "generate", ok |-> ok, i |-> i, topic |-> <<>>, query |-> <<>>, text |-> text]

(***************************************************************************)
(* Specification SpecScrape: a document is built node by node (any tree of *)
(* at most MaxNodes elements of Elems), then scrape() runs on it.          *)
(***************************************************************************)
ImgA == Node("img", "", "", <<>>, Ref("root", "", <<"i", "a">>), NoRef)
ImgA2 == Node("img", "", "", <<>>, Ref("rel", "", <<"..", "i", "a">>), NoRef)
ImgB == Node("img", "", "", <<>>, Ref("rel", "", <<"b">>), NoRef)
ImgLazy == Node("img", "", "", <<>>, EmptyRef, Ref("abs", "cdn", <<"c">>))
ImgBare == Node("img", "", "", <<>>, NoRef, NoRef)

Elems ==
    {Node("h1", "", "", t, NoRef, NoRef) : t \in {<<" ">>, <<" ", "a", " ">>, <<"b">>}}
    \cup {Node("div", "entry-title", "", t, NoRef, NoRef) : t \in {<<>>, <<"c">>}}
    \cup {Node("title", "", "", t, NoRef, NoRef) : t \in {<<" ", " ">>, <<"t", " ">>}}
    \cup {Node("article", "", "", <<>>, NoRef, NoRef),
          Node("main", "", "", <<>>, NoRef, NoRef),
          Node("header", "", "", <<>>, NoRef, NoRef)}
    \cup {ImgA, ImgA2, ImgB, ImgLazy, ImgBare}

\* elements that may hold children
ParentTags == {"article", "main", "header"}

RECURSIVE AncestorsOrSelf(_, _)
AncestorsOrSelf(doc, k) ==
    IF k = 0 THEN {} ELSE {k} \cup AncestorsOrSelf(doc, doc[k].parent)

\* where the next element of the document may hang: the root, or an open element
OpenParents(doc) ==
    {0} \cup {k \in AncestorsOrSelf(doc, Len(doc)) : doc[k].tag \in ParentTags}

PipelineIdle ==
    /\ request = Idle /\ pc = "idle" /\ calls = <<>> /\ scraped_content = Idle
    /\ web_search_info = Idle /\ searchFault = "none" /\ prompt = Idle
    /\ variations = <<>> /\ fault = "none" /\ response = Idle

InitScrape ==
    /\ soup = <<>> /\ phase = "build" /\ scraped = Idle
    /\ fmtIn = Idle /\ fmtOut = Idle
    /\ search_output = <<>> /\ search_result = Idle
    /\ PipelineIdle

AddNode(e, p) ==
    /\ phase = "build"
    /\ Len(soup) < MaxNodes
    /\ soup' = Append(soup, [e EXCEPT !.parent = p])
    /\ UNCHANGED <<phase, scraped, fmtIn, fmtOut, request, pc, calls, scraped_content,
                   web_search_info, searchFault, prompt, variations, fault, response,
                   search_output, search_result>>

Scrape ==
    /\ phase = "build"
    /\ phase' = "done"
    /\ scraped' = scrape(soup)
    /\ UNCHANGED <<soup, fmtIn, fmtOut, request, pc, calls, scraped_content,
                   web_search_info, searchFault, prompt, variations, fault, response,
                   search_output, search_result>>

NextScrape ==
    \/ \E e \in Elems : \E p \in OpenParents(soup) : AddNode(e, p)
    \/ Scrape

SpecScrape == InitScrape /\ [][NextScrape]_vars

(***************************************************************************)
(* C8 and C9: scrape()'s image list and title.                             *)
(***************************************************************************)
NoDuplicates(xs) == \A i, j \in 1..Len(xs) : xs[i] = xs[j] => i = j

FirstPos(xs, x) == Min({k \in 1..Len(xs) : xs[k] = x})

\* the src / data-src values an img element of the document carries
ImageRefs(doc) ==
    {doc[k].src : k \in {j \in 1..Len(doc) : doc[j].tag = "img"}}
    \cup {doc[k].dsrc : k \in {j \in 1..Len(doc) : doc[j].tag = "img"}}

\* C8: the image list scrape returns has no duplicate, each entry is a src or
\* data-src value of the page resolved against the page URL, it holds exactly the
\* resolved URLs that were collected, and they stand in the order of the first
\* occurrence of each resolved URL.
C8_ImagesDeduplicatedInOrder ==
    phase = "done" =>
        /\ NoDuplicates(scraped.images)
        /\ Range(scraped.images) = Range(scraped.collected)
        /\ \A u \in Range(scraped.images) :
               \E r \in ImageRefs(soup) : RefTruthy(r) /\ u = urljoin(PageUrl, r)
        /\ \A i, j \in 1..Len(scraped.images) :
               i < j => FirstPos(scraped.collected, scraped.images[i])
                        < FirstPos(scraped.collected, scraped.images[j])

\* two different relative sources resolve to one URL, with another image between
C8_Witness ==
    /\ phase = "done"
    /\ Len(soup) = 3
    /\ soup[1] = ImgA /\ soup[2] = ImgB /\ soup[3] = ImgA2
    /\ Len(scraped.collected) = 3
    /\ scraped.collected[1] = scraped.collected[3]
    /\ scraped.images = <<scraped.collected[1], scraped.collected[2]>>

\* the candidates of the title in the order of the claim: first h1, first element
\* of an article-title class, the title element (0 where the page has none)
FirstWith(doc, m) ==
    IF \E k \in 1..Len(doc) : Matches(doc[k], m)
    THEN Min({k \in 1..Len(doc) : Matches(doc[k], m)}) ELSE 0

TitleCandidates(doc) ==
    <<FirstWith(doc, ByTag({"h1"})),
      FirstWith(doc, ByClass(TitleClasses)),
      FirstWith(doc, ByTag({"title"}))>>

NonBlank(doc, k) == k # 0 /\ \E j \in 1..Len(ElemText(doc, k)) : ElemText(doc, k)[j] # " "

\* C9: the title scrape returns is never empty or blank: it is the stripped text of
\* the first non-blank candidate (first h1, first article-title class element,
\* title element), and the sentinel when none of them has text.
C9_TitleNeverEmpty ==
    phase = "done" =>
        LET c == TitleCandidates(soup)
            good == {i \in 1..3 : NonBlank(soup, c[i])}
        IN  /\ scraped.title # <<>>
            /\ \E j \in 1..Len(scraped.title) : scraped.title[j] # " "
            /\ IF good = {} THEN scraped.title = TitleUnknown
               ELSE /\ scraped.title = Strip(ElemText(soup, c[Min(good)]))
                    /\ Head(scraped.title) # " "
                    /\ scraped.title[Len(scraped.title)] # " "

\* a blank h1 and a blank class element: the title element's text is taken, stripped
C9_Witness ==
    /\ phase = "done"
    /\ Len(soup) = 3
    /\ soup[1].tag = "h1" /\ soup[1].text = <<" ">>
    /\ soup[2].cls = "entry-title" /\ soup[2].text = <<>>
    /\ soup[3].tag = "title" /\ soup[3].text = <<"t", " ">>
    /\ scraped.title = <<"t">>

(***************************************************************************)
(* Specification SpecFormat: _format_as_markdown on every content, image   *)
(* list of at most MaxImages entries and source URL.                       *)
(***************************************************************************)
ImageUrls == {"u1", "u2"}
ImageLists == UNION {[1..n -> ImageUrls] : n \in 0..MaxImages}
FormatContents == {NoneText, Txt(<<>>), Txt(<<"x">>), Txt(<<"x", "y">>)}
FormatBlogUrls == {None, "", "https://h/post/1"}

InitFormat ==
    /\ soup = <<>> /\ phase = "build" /\ scraped = Idle
    /\ fmtIn \in [content : FormatContents, selected_images : ImageLists,
                  blog_url : FormatBlogUrls]
    /\ fmtOut = Idle
    /\ search_output = <<>> /\ search_result = Idle
    /\ PipelineIdle

Format ==
    /\ phase = "build"
    /\ phase' = "done"
    /\ fmtOut' = _format_as_markdown(fmtIn.content, fmtIn.selected_images, fmtIn.blog_url)
    /\ UNCHANGED <<soup, scraped, fmtIn, request, pc, calls, scraped_content,
                   web_search_info, searchFault, prompt, variations, fault, response,
                   search_output, search_result>>

NextFormat == Format

SpecFormat == InitFormat /\ [][NextFormat]_vars

\* C4: the markdown is the raw text, then one image reference per selected image in
\* the order of the list, numbered from 1, then one link to the source URL when the
\* URL is present (and nothing else); without images the link is still there.
C4_MarkdownLayout ==
    (phase = "done" /\ ~fmtIn.content.isNone) =>
        LET imgs == fmtIn.selected_images
            n == Len(imgs)
            linked == fmtIn.blog_url \notin {None, ""}
            parts == fmtOut.parts
        IN  /\ ~fmtOut.raised
            /\ Len(parts) = 1 + n + (IF linked THEN 1 ELSE 0)
            /\ parts[1] = TextPart(fmtIn.content.s)
            /\ \A k \in 1..n : parts[1 + k] = ImagePart(k, imgs[k])
            /\ linked => parts[Len(parts)] = LinkPart(fmtIn.blog_url)
            /\ Cardinality({k \in 1..Len(parts) : parts[k].kind = "image"}) = n
            /\ Cardinality({k \in 1..Len(parts) : parts[k].kind = "link"})
                   = (IF linked THEN 1 ELSE 0)

\* two images and a source URL
C4_Witness ==
    /\ phase = "done"
    /\ fmtIn.content = Txt(<<"x", "y">>)
    /\ fmtIn.selected_images = <<"u2", "u1">>
    /\ fmtIn.blog_url = "https://h/post/1"
    /\ Len(fmtOut.parts) = 4
    /\ fmtOut.parts[2].n = 1 /\ fmtOut.parts[3].n = 2

(***************************************************************************)
(* Specification Spec: one request to POST /api/generate-line-content.     *)
(* The handler runs from one remote call to the next in one step; the      *)
(* environment chooses what each remote call returns.                      *)
(***************************************************************************)
BlogUrls == {"https://h/post/1", "ftp://h/post/1", "h/post/1"}
CompanyUrls == {"https://corp", "ftp://corp", "corp"}

Requests ==
    [company_name : {"Corp"},
     company_url : CompanyUrls,
     blog_url : BlogUrls,
     writing_style : {"casual", "loud"},
     line_break_style : {"readable", "none"},
     reference_template : {None, "tpl"},
     selected_images : {<<>>, <<"u1">>, <<"u2", "u1">>},
     use_web_search : BOOLEAN]

\* the documents the blog URL may serve
Pages ==
    {<<>>,
     <<Node("h1", "", "", <<" ", "a", " ">>, NoRef, NoRef),
       Node("article", "", "", <<>>, NoRef, NoRef),
       [ImgA EXCEPT !.parent = 2]>>,
     <<Node("title", "", "", <<"t", " ">>, NoRef, NoRef), ImgLazy, ImgLazy>>,
     <<Node("main", "", "", <<>>, NoRef, NoRef),
       [Node("p", "", "", <<"b", " ">>, NoRef, NoRef) EXCEPT !.parent = 1],
       [Node("h2", "", "", <<"c">>, NoRef, NoRef) EXCEPT !.parent = 1]>>}

\* the output lists the search backend may return
Ann(url) == [type |-> "url_citation", url |-> url, title |-> "t"]
Block(text, annotations) ==
    [type |-> "output_text", text |-> text, hasAnnotations |-> TRUE,
     annotations |-> annotations]
Message(content) == [type |-> "message", hasContent |-> TRUE, content |-> content]
MessageWithoutContent == [type |-> "message", hasContent |-> FALSE, content |-> <<>>]
SearchCallItem == [type |-> "web_search_call", hasContent |-> FALSE, content |-> <<>>]

SearchOutputs ==
    {<<>>,
     <<SearchCallItem, Message(<<Block(Txt(<<"s">>), <<Ann("c1")>>)>>)>>,
     <<SearchCallItem, Message(<<Block(Txt(<<>>), <<>>)>>)>>,
     <<Message(<<Block(Txt(<<"s">>), <<Ann("c1")>>)>>), MessageWithoutContent>>}

\* what the generative backend may return as message.content
GenTexts == {NoneText, Txt(<<>>), Txt(<<"x">>), Txt(<<"y">>)}

Init ==
    /\ soup = <<>> /\ phase = "idle" /\ scraped = Idle
    /\ fmtIn = Idle /\ fmtOut = Idle
    /\ search_output = <<>> /\ search_result = Idle
    /\ request \in Requests
    /\ pc = "received"
    /\ calls = <<>>
    /\ scraped_content = Idle
    /\ web_search_info = EmptyDict
    /\ searchFault = "none"
    /\ prompt = Idle
    /\ variations = <<>>
    /\ fault = "none"
    /\ response = Idle

\* the run ends with the answer r
Finish(r, f) ==
    /\ response' = r
    /\ fault' = f
    /\ pc' = "done"

\* FastAPI rejects the body: the handler does not run
RejectRequest ==
    /\ pc = "received"
    /\ ~LineGenerateRequestValid(request)
    /\ Finish(RequestValidationResponse, "request")
    /\ UNCHANGED <<soup, phase, scraped, fmtIn, fmtOut, request, calls, scraped_content,
                   web_search_info, searchFault, prompt, variations,
                   search_output, search_result>>

EnterHandler ==
    /\ pc = "received"
    /\ LineGenerateRequestValid(request)
    /\ pc' = "handler"
    /\ UNCHANGED <<soup, phase, scraped, fmtIn, fmtOut, request, calls, scraped_content,
                   web_search_info, searchFault, prompt, variations, fault, response,
                   search_output, search_result>>

\* lines 169-173 raise something nobody expected
HandlerUnexpected ==
    /\ pc = "handler"
    /\ Finish(Respond(OuterExcept(Exc("RuntimeError", <<"unexpected">>))), "unexpected")
    /\ UNCHANGED <<soup, phase, scraped, fmtIn, fmtOut, request, calls, scraped_content,
                   web_search_info, searchFault, prompt, variations,
                   search_output, search_result>>

\* lines 176-181: requests.get raises (always so for a URL that is not http)
FetchFails ==
    /\ pc = "handler"
    /\ calls' = Append(calls, FetchCall(FALSE))
    /\ Finish(Respond(OuterExcept(InnerScrapeExcept(ScrapeExcept(
                  Exc("RequestException", <<"request failed">>))))), "fetch")
    /\ UNCHANGED <<soup, phase, scraped, fmtIn, fmtOut, request, scraped_content,
                   web_search_info, searchFault, prompt, variations,
                   search_output, search_result>>

\* lines 176-205 and content_generator.py lines 48-50, 68: the page arrives
FetchReturns(page) ==
    /\ pc = "handler"
    /\ HttpUrl(request.blog_url)
    /\ calls' = Append(calls, FetchCall(TRUE))
    /\ soup' = page
    /\ scraped_content' = [title |-> scrape(page).title,
                            content |-> scrape(page).content,
                            images |-> scrape(page).images]
    /\ IF ~LineContentRequestValid(request)
       THEN /\ Finish(Respond(OuterExcept(Exc("ValidationError",
                                              <<"LineContentRequest">>))), "config")
            /\ UNCHANGED <<web_search_info, prompt>>
       ELSE /\ pc' = StageAfterFetch(request)
            /\ IF StageAfterFetch(request) = "generate"
               THEN prompt' = _build_prompt(request, scraped_content',
                                            request.selected_images, web_search_info)
               ELSE prompt' = prompt
            /\ UNCHANGED <<web_search_info, fault, response>>
    /\ UNCHANGED <<phase, scraped, fmtIn, fmtOut, request, searchFault, variations,
                   search_output, search_result>>

\* lines 51-68: the search call is made and answers or raises
Search(backendRaised, output) ==
    /\ pc = "search"
    /\ LET topic == scraped_content.title
           enr == Enrichment(topic, backendRaised, output)
       IN  /\ calls' = Append(calls, SearchCall(~backendRaised, topic,
                                                SearchQuery(request.company_name, topic)))
           /\ searchFault' = enr.fault
           /\ IF enr.raised
              THEN /\ Finish(Respond(OuterExcept(Exc("Exception", <<"search failed">>))),
                             "search")
                   /\ UNCHANGED <<web_search_info, prompt>>
              ELSE /\ web_search_info' = enr.info
                   /\ prompt' = _build_prompt(request, scraped_content,
                                              request.selected_images, enr.info)
                   /\ pc' = "generate"
                   /\ UNCHANGED <<fault, response>>
    /\ UNCHANGED <<soup, phase, scraped, fmtIn, fmtOut, request, scraped_content,
                   variations,
                   search_output, search_result>>

SearchReturns(output) == Search(FALSE, output)

SearchRaises == Search(TRUE, <<>>)

\* a faulty variant of lines 103-105: the failed call is tried again
GenerationRetries(e) ==
    UNCHANGED <<variations, pc, fault, response>>

\* lines 103-105 and app.py 215-229: the loop is left by an exception
GenerationStops(e) ==
    LET out == GenerateExcept(variations, e)
    IN  /\ IF out.raised
           THEN Finish(Respond(OuterExcept(out.exc)), "generation")
           ELSE Finish(LineContentResponse(scraped_content, out.value), "generation")
        /\ UNCHANGED variations

\* lines 76-101, 107 and app.py 215-220: call i answers
GenerateReturns(text) ==
    /\ pc = "generate"
    /\ LET i == Len(variations)
           md == _format_as_markdown(text, request.selected_images, request.blog_url)
       IN  /\ calls' = Append(calls, GenerateCall(TRUE, i, text))
           /\ IF md.raised \/ text.isNone
              THEN GenerationStops(Exc("TypeError", <<"NoneType">>))
              ELSE /\ variations' =
                          AppendVariation(variations, GeneratedContent(text, md.parts))
                   /\ IF i + 1 = VariantCount
                      THEN Finish(LineContentResponse(scraped_content, variations'), "none")
                      ELSE UNCHANGED <<pc, fault, response>>
    /\ UNCHANGED <<soup, phase, scraped, fmtIn, fmtOut, request, scraped_content,
                   web_search_info, searchFault, prompt,
                   search_output, search_result>>

\* lines 78-89: call i raises
GenerateRaises ==
    /\ pc = "generate"
    /\ calls' = Append(calls, GenerateCall(FALSE, Len(variations), NoneText))
    /\ GenerationStops(Exc("APIError", <<"generation backend">>))
    /\ UNCHANGED <<soup, phase, scraped, fmtIn, fmtOut, request, scraped_content,
                   web_search_info, searchFault, prompt,
                   search_output, search_result>>

Next ==
    \/ RejectRequest
    \/ EnterHandler
    \/ HandlerUnexpected
    \/ FetchFails
    \/ \E page \in Pages : FetchReturns(page)
    \/ \E output \in SearchOutputs : SearchReturns(output)
    \/ SearchRaises
    \/ \E text \in GenTexts : GenerateReturns(text)
    \/ GenerateRaises

Spec == Init /\ [][Next]_vars

(***************************************************************************)
(* Claims about a run of the endpoint (specification Spec).                *)
(***************************************************************************)
GenerateCalls == SelectSeq(calls, LAMBDA c : c.op = "generate")

\* a generation call that raised or came back without text
GenerationFailed(c) == c.op = "generate" /\ (~c.ok \/ c.text.isNone)

PromptBuilt == pc \in {"generate", "done"} /\ "web_search_section" \in DOMAIN prompt

\* no summary text of the search stands in the prompt
NoSummaryInPrompt ==
    \/ ~prompt.web_search_section.present
    \/ prompt.web_search_section.text.isNone
    \/ prompt.web_search_section.text.s = <<>>

\* C1: with use_web_search, a fetched page and no failing generation call, a failure
\* anywhere in the enrichment attempt (the backend raises, the response cannot be
\* read) leaves the run answering 200 with all variants, and no summary text of the
\* search in the prompt.
C1_SearchFailureIsolated ==
    (/\ pc = "done"
     /\ request.use_web_search
     /\ searchFault # "none"
     /\ \A k \in 1..Len(calls) : ~GenerationFailed(calls[k]))
    => /\ response.status = 200
       /\ fault = "none"
       /\ Len(response.body.generated_options) = VariantCount
       /\ PromptBuilt
       /\ NoSummaryInPrompt

\* the response was half read (a summary was already taken) when reading it raised
C1_Witness ==
    /\ pc = "done"
    /\ searchFault = "parse"
    /\ Len(calls) = 5
    /\ response.status = 200

\* C2: a run ends with all VariantCount variants or with a failure and no variant;
\* a generation call that fails (also after earlier ones succeeded) fails the run.
C2_AllOrNothing ==
    pc = "done" =>
        /\ response.status = 200 =>
               /\ response.body.present
               /\ Len(response.body.generated_options) = VariantCount
        /\ response.status # 200 =>
               /\ ~response.body.present
               /\ response.body.generated_options = <<>>
               /\ response.status >= 400
        /\ (\E k \in 1..Len(calls) : GenerationFailed(calls[k])) => response.status # 200

\* the third call fails after two variants were made
C2_Witness ==
    /\ pc = "done"
    /\ Len(variations) = 2
    /\ Len(GenerateCalls) = 3
    /\ ~GenerateCalls[3].ok
    /\ response.status = 500

\* C3 (amended): a run that returns normally returns exactly VariantCount
\* variants, the k-th being the one of call index k - 1, its content the text the
\* backend returned for that index, unmodified (and never None).
C3_VariantsAreBackendTexts ==
    (pc = "done" /\ response.status = 200) =>
        LET opts == response.body.generated_options
        IN  /\ Len(opts) = VariantCount
            /\ Len(GenerateCalls) = VariantCount
            /\ \A k \in 1..Len(opts) :
                   /\ GenerateCalls[k].i = k - 1
                   /\ opts[k].content = GenerateCalls[k].text
                   /\ ~opts[k].content.isNone

\* three different answers, returned in the order they were asked for
C3_Witness ==
    /\ pc = "done" /\ response.status = 200
    /\ GenerateCalls[1].text = Txt(<<"x">>)
    /\ GenerateCalls[2].text = Txt(<<"y">>)
    /\ GenerateCalls[3].text = Txt(<<>>)
    /\ response.body.generated_options[2].content = Txt(<<"y">>)

\* C3 as stated: ... and every variant's content is non-empty.
C3_ContentNeverEmpty ==
    (pc = "done" /\ response.status = 200) =>
        /\ Len(response.body.generated_options) = VariantCount
        /\ \A k \in 1..Len(response.body.generated_options) :
               /\ response.body.generated_options[k].content = GenerateCalls[k].text
               /\ response.body.generated_options[k].content.s # <<>>

\* C5: the prompt holds the enrichment section only when a non-empty summary exists.
C5_NoSectionWithoutSummary ==
    PromptBuilt =>
        (prompt.web_search_section.present =>
             /\ ~prompt.web_search_section.text.isNone
             /\ prompt.web_search_section.text.s # <<>>)

\* the configuration as the claim C6 wants it
ConfigWellFormed(req) ==
    /\ UrlScheme(req.blog_url) \in {"http", "https"} /\ UrlHost(req.blog_url) # ""
    /\ UrlScheme(req.company_url) \in {"http", "https"} /\ UrlHost(req.company_url) # ""
    /\ req.writing_style \in WritingStyles
    /\ req.line_break_style \in LineBreakStyles

\* C6: for a request with an invalid configuration no page fetch, search call or
\* generation call is ever issued, and (unless the handler met an unexpected error
\* of its own) it is answered 422.
C6_InvalidConfigRejectedFirst ==
    ~ConfigWellFormed(request) =>
        /\ calls = <<>>
        /\ (pc = "done" /\ fault # "unexpected") => response.status = 422

\* C7: the remote calls of a run are issued in the order fetch, search (only with
\* use_web_search, its topic the extracted title), generation; after a failed
\* fetch the run has failed and no other call is ever issued.
C7_StageOrder ==
    /\ \A k \in 1..Len(calls) : calls[k].op = "fetch" <=> k = 1
    /\ \A k \in 1..Len(calls) :
           calls[k].op = "search" =>
               /\ k = 2
               /\ request.use_web_search
               /\ calls[1].ok
               /\ calls[k].topic = scraped_content.title
               /\ calls[k].topic = _extract_title(soup)
    /\ \A k \in 1..Len(calls) :
           calls[k].op = "generate" =>
               /\ calls[1].ok
               /\ request.use_web_search => (k > 2 /\ calls[2].op = "search")
               /\ ~request.use_web_search => k > 1
    /\ (calls # <<>> /\ ~calls[1].ok) =>
           (Len(calls) = 1 /\ pc = "done" /\ response.status # 200)

\* a full run with search: fetch, search on the title, three generation calls
C7_Witness ==
    /\ pc = "done" /\ response.status = 200
    /\ Len(calls) = 5
    /\ calls[2].op = "search" /\ calls[2].topic = <<"a">>
    /\ calls[5].op = "generate"

\* how a caller can tell two failures apart: the status and the leading message
Class(r) == <<r.status, Head(r.detail)>>

\* C10: the answer to a failed fetch is the one of lines 179-181, not re-classified
\* by the outer handler; it and the answer to a failed generation differ from the
\* answer to an unexpected error; none of the three is a client error.
C10_FailuresDistinguishable ==
    pc = "done" =>
        LET unexpected == Respond(OuterExcept(Exc("RuntimeError", <<"unexpected">>)))
        IN  /\ fault = "fetch" =>
                   /\ Class(response) # Class(unexpected)
                   /\ Head(response.detail) = "article scraping failed"
            /\ fault = "generation" => Class(response) # Class(unexpected)
            /\ fault \in {"fetch", "generation", "unexpected"} => response.status = 500
            /\ fault \in {"request", "config"} => response.status = 422

(***************************************************************************)
(* C11: the number of remote calls of a run.                               *)
(***************************************************************************)
CallsOf(op) == {k \in 1..Len(calls) : calls[k].op = op}

\* the run reached the pipeline (it was not rejected before the page fetch)
PipelineRan == pc = "done" /\ fault \notin {"request", "unexpected"}

\* C11: a run issues exactly one page fetch, at most one search call (none
\* without use_web_search) and at most VariantCount generation calls, the k-th for
\* index k - 1, so no index twice; a generation call that failed is the last call
\* of the run; a run answered 200 issued exactly VariantCount generation calls.
C11_CallsBoundedNoRetry ==
    /\ Cardinality(CallsOf("fetch")) <= 1
    /\ PipelineRan => Cardinality(CallsOf("fetch")) = 1
    /\ Cardinality(CallsOf("search")) <= (IF request.use_web_search THEN 1 ELSE 0)
    /\ Len(GenerateCalls) <= VariantCount
    /\ \A k \in 1..Len(GenerateCalls) : GenerateCalls[k].i = k - 1
    /\ \A j, k \in 1..Len(GenerateCalls) :
           GenerateCalls[j].i = GenerateCalls[k].i => j = k
    /\ \A k \in 1..Len(calls) :
           GenerationFailed(calls[k]) => (k = Len(calls) /\ pc = "done")
    /\ (pc = "done" /\ response.status = 200) => Len(GenerateCalls) = VariantCount

\* the second generation call fails after a search: four calls, and the run is over
C11_Witness ==
    /\ pc = "done"
    /\ fault = "generation"
    /\ Cardinality(CallsOf("search")) = 1
    /\ Len(GenerateCalls) = 2
    /\ ~GenerateCalls[2].ok
    /\ Len(calls) = 4


(***************************************************************************)
(* Specification SpecSearch: search_related_info on every response.output  *)
(* of at most MaxItems items whose messages hold at most MaxBlocks blocks.  *)
(***************************************************************************)
MaxItems == 2
MaxBlocks == 2

FileAnn == [type |-> "file_citation", url |-> "f", title |-> "t"]
RefusalBlock ==
    [type |-> "refusal", text |-> Txt(<<"n">>), hasAnnotations |-> FALSE,
     annotations |-> <<>>]

\* the items and content blocks a response may carry
SearchItems == {SearchCallItem, Message(<<>>)}
SearchBlocks ==
    {Block(Txt(<<"s">>), <<Ann("c1")>>),
     Block(Txt(<<"r">>), <<FileAnn, Ann("c2")>>),
     RefusalBlock}

InitSearch ==
    /\ soup = <<>> /\ phase = "build" /\ scraped = Idle
    /\ fmtIn = Idle /\ fmtOut = Idle
    /\ search_output = <<>> /\ search_result = Idle
    /\ PipelineIdle

AddItem(item) ==
    /\ phase = "build" /\ Len(search_output) < MaxItems
    /\ search_output' = Append(search_output, item)
    /\ UNCHANGED <<soup, phase, scraped, fmtIn, fmtOut, search_result, request, pc,
                   calls, scraped_content, web_search_info, searchFault, prompt,
                   variations, fault, response>>

AddBlock(b) ==
    /\ phase = "build" /\ search_output # <<>>
    /\ LET n == Len(search_output)
           last == search_output[n]
       IN  /\ last.type = "message" /\ Len(last.content) < MaxBlocks
           /\ search_output' =
                  [search_output EXCEPT ![n] = Message(Append(last.content, b))]
    /\ UNCHANGED <<soup, phase, scraped, fmtIn, fmtOut, search_result, request, pc,
                   calls, scraped_content, web_search_info, searchFault, prompt,
                   variations, fault, response>>

\* client.responses.create returns search_output and the loop of lines 61-76 runs
CreateReturns ==
    /\ phase = "build"
    /\ phase' = "done"
    /\ search_result' = search_related_info(FALSE, search_output).result
    /\ UNCHANGED <<soup, scraped, fmtIn, fmtOut, search_output, request, pc,
                   calls, scraped_content, web_search_info, searchFault, prompt,
                   variations, fault, response>>

\* client.responses.create raises
CreateRaises ==
    /\ phase = "build"
    /\ phase' = "failed"
    /\ search_result' = search_related_info(TRUE, search_output).result
    /\ UNCHANGED <<soup, scraped, fmtIn, fmtOut, search_output, request, pc,
                   calls, scraped_content, web_search_info, searchFault, prompt,
                   variations, fault, response>>

NextSearch ==
    \/ \E item \in SearchItems : AddItem(item)
    \/ \E b \in SearchBlocks : AddBlock(b)
    \/ CreateReturns
    \/ CreateRaises

SpecSearch == InitSearch /\ [][NextSearch]_vars

\* every content block of every message of the response, in order
RECURSIVE AllBlocks(_)
AllBlocks(items) ==
    IF items = <<>> THEN <<>>
    ELSE (IF Head(items).type = "message" THEN Head(items).content ELSE <<>>)
         \o AllBlocks(Tail(items))

TextBlocks(items) == SelectSeq(AllBlocks(items), LAMBDA b : b.type = "output_text")

RECURSIVE AllAnnotations(_)
AllAnnotations(blocks) ==
    IF blocks = <<>> THEN <<>>
    ELSE Head(blocks).annotations \o AllAnnotations(Tail(blocks))

Citations(result) ==
    IF "citations" \in DOMAIN result THEN result.citations ELSE <<>>

\* C12: for every response with a textual block, the returned summary is the text of
\* the FIRST output_text block and the citation list holds the URL citations of ALL
\* output_text blocks of the response, in order.
C12_FirstSummaryAllCitations ==
    (phase = "done" /\ TextBlocks(search_output) # <<>>) =>
        /\ search_result.summary = TextBlocks(search_output)[1].text
        /\ Citations(search_result) =
               UrlCitations(AllAnnotations(TextBlocks(search_output)))


(***************************************************************************)
(* Images of the content container, under SpecScrape.                      *)
(***************************************************************************)
\* the images of the fetched document that lie under node c
ImagesUnder(doc, c) == FindAll(doc, c, ByTag({"img"}))

\* C13: scrape collects the source of every image inside the content container of the
\* fetched document, whatever the body extraction removed before; the whole document
\* is scanned only when the container gives no image.
C13_ContainerImagesCollected ==
    phase = "done" =>
        LET c == ContentElement(soup)
            inner == CollectImages(soup, ImagesUnder(soup, c))
        IN  scraped.collected =
                (IF inner # <<>> THEN inner
                 ELSE CollectImages(soup, ImagesUnder(soup, 0)))


(***************************************************************************)
(* Specification SpecPrompt: _build_prompt on every validated request and  *)
(* on article bodies of up to BodyCap + MaxExcess characters.              *)
(***************************************************************************)
MaxExcess == 2

BodyLengths == (0..MaxExcess) \cup ((BodyCap - MaxExcess)..(BodyCap + MaxExcess))

\* the character at position k of a body whose line breaks come every q characters
BodyChar(k, q) == IF k % q = 0 THEN "\n" ELSE IF k % 2 = 0 THEN "a" ELSE "b"

Bodies == {[k \in 1..n |-> BodyChar(k, q)] : n \in BodyLengths, q \in {3, 5}}

\* what the enrichment stage hands over when the search answered
SearchAnswered ==
    Enrichment(<<"t">>, FALSE,
               <<SearchCallItem, Message(<<Block(Txt(<<"s">>), <<Ann("c1")>>)>>)>>).info

InitPrompt ==
    /\ soup = <<>> /\ phase = "build" /\ scraped = Idle
    /\ fmtIn = Idle /\ fmtOut = Idle
    /\ search_output = <<>> /\ search_result = Idle
    /\ request \in {r \in Requests : LineContentRequestValid(r)}
    /\ pc = "idle" /\ calls = <<>>
    /\ scraped_content \in [title : {<<"t">>}, content : Bodies, images : {<<>>}]
    /\ web_search_info = (IF request.use_web_search THEN SearchAnswered ELSE EmptyDict)
    /\ searchFault = "none" /\ prompt = Idle
    /\ variations = <<>> /\ fault = "none" /\ response = Idle

BuildPrompt ==
    /\ phase = "build"
    /\ phase' = "done"
    /\ prompt' = _build_prompt(request, scraped_content, request.selected_images,
                               web_search_info)
    /\ UNCHANGED <<soup, scraped, fmtIn, fmtOut, search_output, search_result, request,
                   pc, calls, scraped_content, web_search_info, searchFault,
                   variations, fault, response>>

NextPrompt == BuildPrompt

SpecPrompt == InitPrompt /\ [][NextPrompt]_vars

\* C14: the body embedded in the prompt is exactly the first min(length, 1500)
\* characters of the article body, so nothing from position 1501 on is embedded,
\* whatever the request and the enrichment are.
C14_BodyTruncated ==
    phase = "done" =>
        LET b == scraped_content.content
            n == IF Len(b) < 1500 THEN Len(b) ELSE 1500
        IN  /\ Len(prompt.body) = n
            /\ \A k \in 1..n : prompt.body[k] = b[k]

C14_Witness ==
    /\ phase = "done"
    /\ Len(scraped_content.content) = 1502
    /\ Len(prompt.body) = 1500
    /\ prompt.body = SubSeq(scraped_content.content, 1, 1500)

====
